---- MODULE Spec2Model ----
(***************************************************************************)
(* Model of examples/advanced/ai-powered-api/handlers/recommendations.py.  *)
(*                                                                         *)
(* The handler is a process that serves one request and exits, so every    *)
(* operation is taken once, from the initial state.  The data store        *)
(* (users.db) is an input of the operation that reads it: the action       *)
(* draws the snapshot it reads and records it in db.                       *)
(*                                                                         *)
(* Strings are sequences of one-character strings, so split(), the "in"    *)
(* test, isdigit(), int() and float() are modelled by what they do to the  *)
(* characters.  Floats are exact fixed-point numbers: a preference score   *)
(* is an integer number of tenths, a catalog base score an integer number  *)
(* of hundredths, a recommendation score an integer number of thousandths, *)
(* and a similarity is the pair (num, den2) standing for num / sqrt(den2). *)
(* Binary rounding error of IEEE doubles is not modelled.                  *)
(***************************************************************************)
EXTENDS Integers, Sequences, FiniteSets, TLC

VARIABLES
  db,    \* the snapshot of users.db the call read (NoDb: none read)
  call   \* the call made: [fn, args, result]

vars == <<db, call>>

\* ------------------------------------------------------------------ bounds
MaxPairs == 2          \* pairs in a preference string given to calculate_user_similarity
MaxUsers == 5          \* users in the population of the collaborative recommender
MaxPrefRows == 2       \* user_preferences rows in the content recommender's data store

\* ------------------------------------------------------- python primitives
Min(a, b) == IF a < b THEN a ELSE b
Max(a, b) == IF a < b THEN b ELSE a

RECURSIVE SumOver(_, _)
\* sum(f[x] for x in S)
SumOver(S, f) ==
  IF S = {} THEN 0
  ELSE LET x == CHOOSE y \in S : TRUE IN f[x] + SumOver(S \ {x}, f)

\* index of the first occurrence of character c in s, 0 if there is none
IndexOf(s, c) ==
  IF \E i \in 1..Len(s) : s[i] = c
  THEN CHOOSE i \in 1..Len(s) : s[i] = c /\ \A j \in 1..(i-1) : s[j] # c
  ELSE 0

\* index of the last occurrence of character c in s, 0 if there is none
LastIndexOf(s, c) ==
  IF \E i \in 1..Len(s) : s[i] = c
  THEN CHOOSE i \in 1..Len(s) : s[i] = c /\ \A j \in (i+1)..Len(s) : s[j] # c
  ELSE 0

RECURSIVE Split(_, _)
\* str.split(sep) for a one-character separator: "".split(",") is [""]
Split(s, sep) ==
  LET i == IndexOf(s, sep) IN
  IF i = 0 THEN <<s>>
  ELSE <<SubSeq(s, 1, i-1)>> \o Split(SubSeq(s, i+1, Len(s)), sep)

\* pref.rsplit(':', 1): the split at the last colon instead of the first
SplitLastColon(pref) ==
  LET i == LastIndexOf(pref, ":") IN
  <<SubSeq(pref, 1, i-1), SubSeq(pref, i+1, Len(pref))>>

\* pref.split(':', 1) of a pref that holds a colon: <<cat, score>>
SplitFirstColon(pref) ==
  LET i == IndexOf(pref, ":") IN
  <<SubSeq(pref, 1, i-1), SubSeq(pref, i+1, Len(pref))>>

RECURSIVE Join(_, _)
\* sep.join(parts)
Join(parts, sep) ==
  IF parts = <<>> THEN <<>>
  ELSE IF Len(parts) = 1 THEN parts[1]
  ELSE parts[1] \o <<sep>> \o Join(Tail(parts), sep)

\* s contains t as a substring (python: t in s)
Contains(s, t) ==
  \E i \in 1..(Len(s) - Len(t) + 1) : SubSeq(s, i, i + Len(t) - 1) = t

Digits == {"0", "1", "2", "3", "4", "5", "6", "7", "8", "9"}

DigitVal(c) ==
  CASE c = "0" -> 0 [] c = "1" -> 1 [] c = "2" -> 2 [] c = "3" -> 3
    [] c = "4" -> 4 [] c = "5" -> 5 [] c = "6" -> 6 [] c = "7" -> 7
    [] c = "8" -> 8 [] c = "9" -> 9

\* str.isdigit(): non-empty and all characters digits
IsDigit(s) == Len(s) > 0 /\ \A i \in 1..Len(s) : s[i] \in Digits

RECURSIVE IntOf(_)
\* int(s) of a string of digits ("" counts 0, as the integer part of ".5")
IntOf(s) ==
  IF s = <<>> THEN 0 ELSE 10 * IntOf(SubSeq(s, 1, Len(s)-1)) + DigitVal(s[Len(s)])

\* float(s) succeeds.  Over the alphabet of the model (digits, ".", letters,
\* ":" and ",") python accepts exactly digits [ "." digits ] with a digit.
FloatOk(s) ==
  LET d == IndexOf(s, ".")
      ip == IF d = 0 THEN s ELSE SubSeq(s, 1, d-1)
      fp == IF d = 0 THEN <<>> ELSE SubSeq(s, d+1, Len(s))
  IN /\ \A i \in 1..Len(ip) : ip[i] \in Digits
     /\ \A i \in 1..Len(fp) : fp[i] \in Digits
     /\ Len(ip) + Len(fp) > 0

\* float(s) in tenths (fraction digits beyond the first are dropped: the
\* score texts of the model have at most one)
FloatOf(s) ==
  LET d == IndexOf(s, ".")
      ip == IF d = 0 THEN s ELSE SubSeq(s, 1, d-1)
      fp == IF d = 0 THEN <<>> ELSE SubSeq(s, d+1, Len(s))
      f1 == SubSeq(fp \o <<"0">>, 1, 1)
  IN 10 * IntOf(ip) + IntOf(f1)

\* ------------------------------------------------------------ python values
\* A value that is a string, None, or a missing key of a row.
Str(s) == [t |-> "str", s |-> s]
None == [t |-> "None"]
Absent == [t |-> "absent"]

\* dict.get(key): None when the key is missing
Get(v) == IF v.t = "absent" THEN None ELSE v

\* truthiness of an optional string: None and "" are falsy
Truthy(v) == v.t = "str" /\ v.s # <<>>

\* Outcome of a call: a returned value or a raised exception
Return(v) == [exc |-> "none", val |-> v]
Raise(e) == [exc |-> e]

\* an exception raised by a call propagates; otherwise Rest continues with
\* the value returned
Then(outcome, Rest(_)) == IF outcome.exc # "none" THEN outcome ELSE Rest(outcome.val)

\* ------------------------------------------------------- preference parsing
RECURSIVE ParsePairs(_, _)
\* The parsing loop of lines 59-62, 64-67 and 135-138: for each pref of
\* the split, a pref with a colon is split on its first colon and its score
\* converted with float(); float() raising ValueError ends the loop.
ParsePairs(pairs, prefs) ==
  IF pairs = <<>> THEN Return(prefs)
  ELSE LET pref == Head(pairs) IN
    IF IndexOf(pref, ":") # 0
    THEN LET cs == SplitFirstColon(pref)
             cat == cs[1]
             score == cs[2]
         IN IF FloatOk(score)
            THEN ParsePairs(Tail(pairs),
                   [c \in DOMAIN prefs \cup {cat} |->
                      IF c = cat THEN FloatOf(score) ELSE prefs[c]])
            ELSE Raise("ValueError")
    ELSE ParsePairs(Tail(pairs), prefs)

EmptyDict == [c \in {} |-> 0]

ParsePreferences(s) == ParsePairs(Split(s, ","), EmptyDict)

\* --------------------------------------------------------------- similarity
\* a float num / sqrt(den2), den2 > 0
Sim(num, den2) == [num |-> num, den2 |-> den2]

\* the literal 0.1
Floor == Sim(1, 100)

Sq(x) == x * x
Sgn(x) == IF x < 0 THEN -1 ELSE IF x = 0 THEN 0 ELSE 1

\* a < b and a = b as real numbers
SimLess(a, b) == Sgn(a.num) * Sq(a.num) * b.den2 < Sgn(b.num) * Sq(b.num) * a.den2
SimEq(a, b) == Sgn(a.num) * Sq(a.num) * b.den2 = Sgn(b.num) * Sq(b.num) * a.den2

\* sum(prefs[cat]**2 for cat in prefs): the square of the magnitude
SumSquares(prefs) == SumOver(DOMAIN prefs, [c \in DOMAIN prefs |-> Sq(prefs[c])])

\* sum(prefs1[cat] * prefs2[cat] for cat in common_categories)
DotProduct(prefs1, prefs2, common_categories) ==
  SumOver(common_categories, [c \in common_categories |-> prefs1[c] * prefs2[c]])

CosineSelfNorm(prefs1, prefs2) ==
  LET common_categories == DOMAIN prefs1 \cap DOMAIN prefs2
  IN IF common_categories = {} THEN Floor
     ELSE IF SumSquares(prefs1) = 0 \/ SumSquares(prefs2) = 0 THEN Floor
     ELSE Sim(DotProduct(prefs1, prefs2, common_categories), SumSquares(prefs1) * SumSquares(prefs1))

CosineZeroFloor(prefs1, prefs2) ==
  LET common_categories == DOMAIN prefs1 \cap DOMAIN prefs2
  IN IF common_categories = {} THEN Sim(0, 1)
     ELSE IF SumSquares(prefs1) = 0 \/ SumSquares(prefs2) = 0 THEN Floor
     ELSE Sim(DotProduct(prefs1, prefs2, common_categories), SumSquares(prefs1) * SumSquares(prefs2))

\* lines 69-81, given the two parsed dicts.  magnitude1 * magnitude2 is
\* the square root of SumSquares(prefs1) * SumSquares(prefs2), and a
\* magnitude is 0 exactly when its sum of squares is.
Cosine(prefs1, prefs2) ==
  LET common_categories == DOMAIN prefs1 \cap DOMAIN prefs2
  IN IF common_categories = {} THEN Floor
     ELSE IF SumSquares(prefs1) = 0 \/ SumSquares(prefs2) = 0 THEN Floor
     ELSE Sim(DotProduct(prefs1, prefs2, common_categories), SumSquares(prefs1) * SumSquares(prefs2))

\* calculate_user_similarity(user1, user2); a user is a row with a
\* preferences field that is a string, None or missing
calculate_user_similarity(user1, user2) ==
  IF ~Truthy(Get(user1.preferences)) \/ ~Truthy(Get(user2.preferences))
  THEN Return(Floor)
  ELSE Then(ParsePreferences(user1.preferences.s), LAMBDA prefs1 :
       Then(ParsePreferences(user2.preferences.s), LAMBDA prefs2 :
       Return(Cosine(prefs1, prefs2))))

\* ------------------------------------------------ inputs of the similarity
\* The pairs the bounded preference strings are joined from.
PairPool ==
  { <<"a", ":", "1">>, <<"a", ":", "0", ".", "5">>, <<"b", ":", "1">>,
    <<"b", ":", "0">>, <<"b">>, <<"a", ":", "x">>, <<"a", ":", "b", ":", "1">> }

PrefStrings ==
  UNION { { Join(ps, ",") : ps \in [1..n -> PairPool] } : n \in 0..MaxPairs }

PrefValues == {Absent, None} \cup { Str(s) : s \in PrefStrings }

NoCall == [fn |-> "none"]
NoDb == [up |-> FALSE, users |-> {}, user_interactions |-> <<>>, user_preferences |-> <<>>]

Init == db = NoDb /\ call = NoCall

\* --------------------------------------------------------------- data store
\* A snapshot d of users.db: d.up is FALSE when a query raises sqlite3.Error;
\* d.users is the set of ids of table users (name and email are copied to the
\* output unchanged and are left out); d.user_interactions[u] is the number
\* of user_interactions rows of u; d.user_preferences is the sequence of rows
\* [user_id, category, preference_score] in rowid order, a column being a
\* Str or None (NULL) and preference_score holding the text SQLite renders.

\* python ids: None or an int
PyInt(n) == [t |-> "int", v |-> n]
IdTruthy(user_id) == user_id.t = "int" /\ user_id.v # 0

\* SelectSeq without a lambda: the rows of user u, in rowid order
RECURSIVE RowsOf(_, _)
RowsOf(rows, u) ==
  IF rows = <<>> THEN <<>>
  ELSE IF Head(rows).user_id = u THEN <<Head(rows)>> \o RowsOf(Tail(rows), u)
  ELSE RowsOf(Tail(rows), u)

RECURSIVE ConcatElems(_)
\* up.category || ':' || up.preference_score of each row, NULLs dropped:
\* || yields NULL when an operand is NULL and GROUP_CONCAT skips NULLs
ConcatElems(rows) ==
  IF rows = <<>> THEN <<>>
  ELSE LET r == Head(rows) IN
    IF r.category.t = "str" /\ r.preference_score.t = "str"
    THEN <<r.category.s \o <<":">> \o r.preference_score.s>> \o ConcatElems(Tail(rows))
    ELSE ConcatElems(Tail(rows))

\* GROUP_CONCAT(up.category || ':' || up.preference_score) as preferences
GroupConcatPreferences(d, u) ==
  LET elems == ConcatElems(RowsOf(d.user_preferences, u)) IN
  IF elems = <<>> THEN None ELSE Str(Join(elems, ","))

RECURSIVE DistinctCategories(_, _)
DistinctCategories(rows, seen) ==
  IF rows = <<>> THEN <<>>
  ELSE LET c == Head(rows).category IN
    IF c.t = "str" /\ c.s \notin seen
    THEN <<c.s>> \o DistinctCategories(Tail(rows), seen \cup {c.s})
    ELSE DistinctCategories(Tail(rows), seen)

\* GROUP_CONCAT(DISTINCT up.category) as categories
GroupConcatCategories(d, u) ==
  LET cats == DistinctCategories(RowsOf(d.user_preferences, u), {}) IN
  IF cats = <<>> THEN None ELSE Str(Join(cats, ","))

\* COUNT(ui.id) as interaction_count: the two LEFT JOINs pair every
\* interaction row of u with every preference row of u
InteractionCount(d, u) ==
  d.user_interactions[u] * Max(1, Len(RowsOf(d.user_preferences, u)))

RECURSIVE Perms(_)
Perms(S) ==
  IF S = {} THEN {<<>>}
  ELSE UNION { { <<x>> \o q : q \in Perms(S \ {x}) } : x \in S }

\* ORDER BY interaction_count DESC: the orders in which the full query can
\* return the users; SQL leaves the order of equal counts open
RowOrders(d) ==
  { o \in Perms(d.users) :
      \A i \in 1..Len(o), j \in 1..Len(o) :
        i < j => InteractionCount(d, o[i]) >= InteractionCount(d, o[j]) }

\* the row of the full-population query (lines 37-46): it has the columns of
\* users, interaction_count and categories, and no preferences key
PopulationRow(d, u) ==
  [id |-> u, interaction_count |-> InteractionCount(d, u),
   categories |-> GroupConcatCategories(d, u), preferences |-> Absent]

\* the row of the single-user query (lines 22-29)
UserRow(d, u) == [id |-> u, preferences |-> GroupConcatPreferences(d, u)]

\* load_user_data(user_id) on snapshot d; order is the order in which the
\* full query returns the users
load_user_data(d, user_id, order) ==
  IF ~d.up THEN Raise("OperationalError")
  ELSE IF IdTruthy(user_id)
  THEN IF user_id.v \in d.users THEN Return(<<UserRow(d, user_id.v)>>) ELSE Return(<<>>)
  ELSE Return([i \in 1..Len(order) |-> PopulationRow(d, order[i])])

\* ------------------------------------------------- collaborative recommender
RECURSIVE InsertDesc(_, _)
\* x placed behind every pair whose similarity is not smaller
InsertDesc(sorted, x) ==
  IF sorted = <<>> THEN <<x>>
  ELSE IF SimLess(Head(sorted)[2], x[2]) THEN <<x>> \o sorted
  ELSE <<Head(sorted)>> \o InsertDesc(Tail(sorted), x)

RECURSIVE InsertDescTiesFirst(_, _)
\* x placed before the pairs of equal similarity
InsertDescTiesFirst(sorted, x) ==
  IF sorted = <<>> THEN <<x>>
  ELSE IF ~SimLess(x[2], Head(sorted)[2]) THEN <<x>> \o sorted
  ELSE <<Head(sorted)>> \o InsertDescTiesFirst(Tail(sorted), x)

RECURSIVE SortReversedAscending(_)
SortReversedAscending(similarities) ==
  IF similarities = <<>> THEN <<>>
  ELSE InsertDescTiesFirst(
         SortReversedAscending(SubSeq(similarities, 1, Len(similarities) - 1)),
         similarities[Len(similarities)])

RECURSIVE SortBySimilarity(_)
\* similarities.sort(key=lambda x: x[1], reverse=True): list.sort is stable,
\* and with reverse=True equal keys keep their original order
SortBySimilarity(similarities) ==
  IF similarities = <<>> THEN <<>>
  ELSE InsertDesc(
         SortBySimilarity(SubSeq(similarities, 1, Len(similarities) - 1)),
         similarities[Len(similarities)])

TopFour(similarities) == SubSeq(similarities, 1, Min(4, Len(similarities)))

\* similarities[:3]
TopThree(similarities) == SubSeq(similarities, 1, Min(3, Len(similarities)))

RECURSIVE Similarities(_, _, _)
\* the loop of lines 93-96 over the users from index i on: the list of
\* (user, similarity) pairs, or the exception calculate_user_similarity raised
Similarities(target_user, rows, user_id) ==
  IF rows = <<>> THEN Return(<<>>)
  ELSE LET user == Head(rows) IN
    IF user.id # user_id
    THEN Then(calculate_user_similarity(target_user, user), LAMBDA similarity :
         Then(Similarities(target_user, Tail(rows), user_id), LAMBDA rest :
         Return(<<<<user, similarity>>>> \o rest)))
    ELSE Similarities(target_user, Tail(rows), user_id)

\* the loop of lines 102-113; similarity_score is emitted rounded to 3
\* decimals, here it is kept as computed
Recommendations(similar_users) ==
  [i \in 1..Len(similar_users) |->
     [type |-> "user_connection",
      user |-> similar_users[i][1].id,
      similarity_score |-> similar_users[i][2]]]

\* next((u for u in users if u['id'] == user_id), None): the indexes of the
\* rows with the id, of which the first is taken
Found(rows, user_id) == { i \in 1..Len(rows) : rows[i].id = user_id }
FirstOf(S) == CHOOSE i \in S : \A j \in S : i <= j

\* a target that is not found raises instead of returning []
CollaborativeRaisingOnMissingTarget(d, user_id, order) ==
  Then(load_user_data(d, None, order), LAMBDA rows :
    IF Found(rows, user_id) = {} THEN Raise("StopIteration")
    ELSE Then(Similarities(rows[FirstOf(Found(rows, user_id))], rows, user_id),
              LAMBDA similarities :
                Return(Recommendations(TopThree(SortBySimilarity(similarities))))))

\* generate_collaborative_recommendations(user_id) on snapshot d
generate_collaborative_recommendations(d, user_id, order) ==
  Then(load_user_data(d, None, order), LAMBDA rows :
    IF Found(rows, user_id) = {} THEN Return(<<>>)
    ELSE Then(Similarities(rows[FirstOf(Found(rows, user_id))], rows, user_id),
              LAMBDA similarities :
                Return(Recommendations(TopThree(SortBySimilarity(similarities))))))

\* ---------------------------------------------------------- character strings
technology == <<"t", "e", "c", "h", "n", "o", "l", "o", "g", "y">>
sports == <<"s", "p", "o", "r", "t", "s">>
music == <<"m", "u", "s", "i", "c">>
travel == <<"t", "r", "a", "v", "e", "l">>
cooking == <<"c", "o", "o", "k", "i", "n", "g">>

PrefRow(u, category, score) ==
  [user_id |-> u, category |-> category, preference_score |-> score]

\* ------------------------------------------ inputs of the collaborative call
\* Users 1, 2 and 3 share the category technology and the other users have
\* no preferences.  A data store holds these rows or none, and every user has
\* one user_interactions row or none.
SharedPreferences ==
  << PrefRow(1, Str(technology), Str(<<"1", ".", "0">>)),
     PrefRow(2, Str(technology), Str(<<"0", ".", "5">>)),
     PrefRow(2, Str(sports), Str(<<"1", ".", "0">>)),
     PrefRow(3, Str(technology), Str(<<"1", ".", "0">>)) >>

RECURSIVE RowsAmong(_, _)
RowsAmong(rows, us) ==
  IF rows = <<>> THEN <<>>
  ELSE IF Head(rows).user_id \in us THEN <<Head(rows)>> \o RowsAmong(Tail(rows), us)
  ELSE RowsAmong(Tail(rows), us)

CollaborativeDbs ==
  UNION { { [up |-> up, users |-> 1..n, user_interactions |-> ui,
             user_preferences |-> RowsAmong(rows, 1..n)] :
              up \in BOOLEAN,
              ui \in [1..n -> {0, 1}],
              rows \in {<<>>, SharedPreferences} } : n \in 0..MaxUsers }

\* generate_collaborative_recommendations(user_id) on a data store
CallCollaborative ==
  /\ call = NoCall
  /\ \E d \in CollaborativeDbs :
       \E order \in RowOrders(d), user_id \in 0..(MaxUsers + 1) :
         /\ db' = d
         /\ call' = [fn |-> "generate_collaborative_recommendations",
                     args |-> <<user_id>>,
                     population |-> order,
                     result |-> generate_collaborative_recommendations(d, user_id, order)]

NextCollaborative == CallCollaborative

SpecCollaborative == Init /\ [][NextCollaborative]_vars

\* calculate_user_similarity applied to two user rows
CallSimilarity ==
  /\ call = NoCall
  /\ \E p1 \in PrefValues, p2 \in PrefValues :
       LET user1 == [id |-> 1, preferences |-> p1]
           user2 == [id |-> 2, preferences |-> p2]
       IN call' = [fn |-> "calculate_user_similarity",
                   args |-> <<user1, user2>>,
                   result |-> calculate_user_similarity(user1, user2)]
  /\ UNCHANGED db

NextSimilarity == CallSimilarity

SpecSimilarity == Init /\ [][NextSimilarity]_vars

\* --------------------------------------------------------- content recommender
\* content_items (lines 121-128); score in hundredths
content_items ==
  << [id |-> "tech-001", type |-> "article", title |-> "Future of AI",
      category |-> technology, score |-> 90],
     [id |-> "tech-002", type |-> "article", title |-> "Web3 Explained",
      category |-> technology, score |-> 80],
     [id |-> "sports-001", type |-> "article", title |-> "Olympics 2024",
      category |-> sports, score |-> 85],
     [id |-> "music-001", type |-> "playlist", title |-> "Indie Rock Hits",
      category |-> music, score |-> 90],
     [id |-> "travel-001", type |-> "guide", title |-> "Hidden Gems in Europe",
      category |-> travel, score |-> 87],
     [id |-> "cook-001", type |-> "recipe", title |-> "Quick Healthy Meals",
      category |-> cooking, score |-> 75] >>

\* the default 0.1 of user_prefs.get(item['category'], 0.1), in tenths
DefaultPreference == 1

TopFive(scored_content) == SubSeq(scored_content, 1, Min(5, Len(scored_content)))

\* user_prefs.get(category, 0.1)
PreferenceOrDefault(user_prefs, category) ==
  IF category \in DOMAIN user_prefs THEN user_prefs[category] ELSE DefaultPreference

\* lines 142-149: recommendation_score in thousandths.  item['score'] is a
\* multiple of 0.01 and a preference a multiple of 0.1, so round(., 3)
\* returns the product
ScoredContent(user_prefs) ==
  [i \in 1..Len(content_items) |->
     [id |-> content_items[i].id, type |-> content_items[i].type,
      title |-> content_items[i].title, category |-> content_items[i].category,
      score |-> content_items[i].score,
      recommendation_score |->
        content_items[i].score * PreferenceOrDefault(user_prefs, content_items[i].category)]]

RECURSIVE InsertByScore(_, _)
InsertByScore(sorted, x) ==
  IF sorted = <<>> THEN <<x>>
  ELSE IF Head(sorted).recommendation_score < x.recommendation_score THEN <<x>> \o sorted
  ELSE <<Head(sorted)>> \o InsertByScore(Tail(sorted), x)

RECURSIVE SortByScore(_)
\* scored_content.sort(key=lambda x: x['recommendation_score'], reverse=True)
SortByScore(scored_content) ==
  IF scored_content = <<>> THEN <<>>
  ELSE InsertByScore(
         SortByScore(SubSeq(scored_content, 1, Len(scored_content) - 1)),
         scored_content[Len(scored_content)])

\* random.sample(content_items, k): the lists of k items at distinct positions
Samples(k) ==
  { [i \in 1..k |-> content_items[ix[i]]] :
      ix \in { f \in [1..k -> 1..Len(content_items)] :
                 \A i \in 1..k, j \in 1..k : i # j => f[i] # f[j] } }

\* generate_content_recommendations(user_id) on snapshot d; sample is the
\* list random.sample returns if line 156 is reached
generate_content_recommendations(d, user_id, sample) ==
  IF IdTruthy(user_id)
  THEN Then(load_user_data(d, user_id, <<>>), LAMBDA user_data :
         IF user_data # <<>> /\ Truthy(Get(user_data[1].preferences))
         THEN Then(ParsePreferences(user_data[1].preferences.s), LAMBDA user_prefs :
                Return(TopFive(SortByScore(ScoredContent(user_prefs)))))
         ELSE Return(sample))
  ELSE Return(sample)

\* --------------------------------------------------- inputs of the content call
\* The user_preferences rows the bounded data stores are filled from: well-formed
\* rows, a score that is no number, a NULL score, and categories that hold the
\* separators of the encoding.
RowPool ==
  { PrefRow(0, Str(technology), Str(<<"1", ".", "0">>)),
    PrefRow(1, Str(technology), Str(<<"1", ".", "0">>)),
    PrefRow(1, Str(sports), Str(<<"0", ".", "5">>)),
    PrefRow(1, Str(music), Str(<<"x">>)),
    PrefRow(1, Str(travel), None),
    PrefRow(1, Str(<<"a", ",", "b">>), Str(<<"0", ".", "5">>)),
    PrefRow(1, Str(<<"a", ":", "b">>), Str(<<"1", ".", "0">>)) }

ContentUsers == {0, 1}

ContentDbsUpTo(n) ==
  UNION { { [up |-> up, users |-> ContentUsers,
             user_interactions |-> [u \in ContentUsers |-> 0],
             user_preferences |-> rows] :
              up \in BOOLEAN, rows \in [1..k -> RowPool] } : k \in 0..n }

\* user id 2 is not in the data store
ContentUserIds == {None} \cup { PyInt(n) : n \in 0..2 }

\* generate_content_recommendations(user_id) on a data store
CallContent ==
  /\ call = NoCall
  /\ \E d \in ContentDbsUpTo(MaxPrefRows), user_id \in ContentUserIds :
       \E sample \in Samples(Min(3, Len(content_items))) :
         /\ db' = d
         /\ call' = [fn |-> "generate_content_recommendations",
                     args |-> <<user_id>>,
                     result |-> generate_content_recommendations(d, user_id, sample)]

NextContent == CallContent

SpecContent == Init /\ [][NextContent]_vars

NextParsing == CallSimilarity \/ CallContent

SpecParsing == Init /\ [][NextParsing]_vars

\* ----------------------------------------------------------------------- main
\* generate_trending_recommendations(): one fixed block (its items left out)
generate_trending_recommendations ==
  << [id |-> "trend-001", type |-> "trending", title |-> "Most Popular This Week",
      reason |-> "Trending content across all categories"] >>

\* What stdin holds, by what json.loads makes of it: blank text (request = {}),
\* text that is not JSON, JSON that is not an object, or an object whose
\* method and path are a string, another JSON value, or missing.
json_loads(input) ==
  IF input.kind = "malformed" THEN Raise("JSONDecodeError") ELSE Return(input)

\* lines 179-187: request.get('method', 'GET') and request.get('path', '')
RequestFields(input) ==
  IF input.kind = "blank" THEN Return([method |-> Str("GET"), path |-> Str(<<>>)])
  ELSE Then(json_loads(input), LAMBDA request :
    IF request.kind # "object" THEN Raise("AttributeError")
    ELSE Return([method |-> IF request.method.t = "absent" THEN Str("GET")
                            ELSE request.method,
                 path |-> IF request.path.t = "absent" THEN Str(<<>>)
                          ELSE request.path]))

slash_recommendations ==
  <<"/", "r", "e", "c", "o", "m", "m", "e", "n", "d", "a", "t", "i", "o", "n", "s">>
users_part == <<"u", "s", "e", "r", "s">>

\* lines 200-208: the user id in the path, or None
ExtractUserId(path) ==
  LET path_parts == Split(path, "/")
      at == { i \in 1..Len(path_parts) : path_parts[i] = users_part }
  IN IF at = {} THEN None
     ELSE LET user_idx == CHOOSE i \in at : \A j \in at : i <= j IN
       IF user_idx + 1 <= Len(path_parts) /\ IsDigit(path_parts[user_idx + 1])
       THEN PyInt(IntOf(path_parts[user_idx + 1]))
       ELSE None

\* lines 211-226: the body of the recommendations response, the three blocks
\* evaluated in order (timestamp and processing_time_ms, values of the clock
\* and of the random generator, are left out)
RecommendationsBody(d, user_id, order, sample) ==
  Then(IF IdTruthy(user_id)
       THEN generate_collaborative_recommendations(d, user_id.v, order)
       ELSE Return(<<>>), LAMBDA collaborative :
  Then(generate_content_recommendations(d, user_id, sample), LAMBDA content :
  Return([user_id |-> user_id,
          recommendations |->
            [collaborative |-> collaborative,
             content |-> content,
             trending |-> generate_trending_recommendations],
          metadata |-> [algorithm |-> "collaborative_filtering_v1"]])))

NotFoundBody == [error |-> "Endpoint not found"]

\* lines 177-240, the try block: the envelope printed, or the exception raised
\* before anything is printed
TryBlock(input, d, order, sample) ==
  Then(RequestFields(input), LAMBDA request :
    \* '/recommendations' in path: TypeError unless path is a string
    IF request.path.t # "str" THEN Raise("TypeError")
    ELSE IF Contains(request.path.s, slash_recommendations) /\ request.method = Str("GET")
    THEN Then(RecommendationsBody(d, ExtractUserId(request.path.s), order, sample),
              LAMBDA body : Return([status |-> 200, body |-> body]))
    ELSE Return([status |-> 404, body |-> NotFoundBody]))

\* lines 244-252
ErrorResponse(e) ==
  [status |-> 500,
   body |-> [error |-> "Internal server error", message |-> e,
             handler |-> "python_recommendations"]]

CaughtIfValueError(e) == e \in {"ValueError", "JSONDecodeError"}

\* except Exception (line 242) catches every exception but the ones that
\* derive from BaseException alone
Caught(e) == e \notin {"KeyboardInterrupt", "SystemExit", "GeneratorExit"}

\* lines 176 and 240-253: what main prints, the exception raised in the try
\* block, and whether an exception leaves main
Handled(tried) ==
  IF tried.exc = "none"
  THEN [stdout |-> <<tried.val>>, raised |-> "none", escaped |-> FALSE]
  ELSE IF Caught(tried.exc)
  THEN [stdout |-> <<ErrorResponse(tried.exc)>>, raised |-> tried.exc, escaped |-> FALSE]
  ELSE [stdout |-> <<>>, raised |-> tried.exc, escaped |-> TRUE]

main(input, d, order, sample) == Handled(TryBlock(input, d, order, sample))

\* ----------------------------------------------------------- inputs of main
Path(parts) == Join(parts, "/")
recommendations_part == SubSeq(slash_recommendations, 2, Len(slash_recommendations))

Paths ==
  { Path(<< <<>>, users_part, recommendations_part >>),
    Path(<< <<>>, users_part, <<"0">>, recommendations_part >>),
    Path(<< <<>>, users_part, <<"1">>, recommendations_part >>),
    Path(<< <<>>, users_part, <<"0", "1">>, recommendations_part >>),
    Path(<< <<>>, users_part, <<"2">>, recommendations_part >>),
    Path(<< <<>>, users_part, <<"a", "1">>, recommendations_part >>),
    Path(<< <<>>, <<"1">>, recommendations_part, users_part >>),
    Path(<< <<>>, recommendations_part >>),
    Path(<< <<>>, users_part, <<"1">> >>),
    <<>> }

Inputs ==
  { [kind |-> "blank"], [kind |-> "malformed"], [kind |-> "array"] } \cup
  { [kind |-> "object", method |-> m, path |-> p] :
      m \in {Absent, Str("GET"), Str("POST")},
      p \in {Absent, [t |-> "number"]} \cup { Str(q) : q \in Paths } }

\* main() on a request read from stdin and a data store
Main ==
  /\ call = NoCall
  /\ \E input \in Inputs, d \in ContentDbsUpTo(Min(1, MaxPrefRows)) :
       \E order \in RowOrders(d), sample \in Samples(Min(3, Len(content_items))) :
         /\ db' = d
         /\ call' = [fn |-> "main", args |-> <<input>>,
                     result |-> main(input, d, order, sample)]

Next == Main

Spec == Init /\ [][Next]_vars

\* ===================================================================== claims
IsCall(fn) == call.fn = fn
Returned == call.result.exc = "none"

\* ------------------------------------------------------------------------ C1
\* C1: for every target user id and every population,
\* generate_collaborative_recommendations returns at most 3 entries and no
\* returned entry's user id is the target user id.
C1_AtMostThreeWithoutTarget ==
  (IsCall("generate_collaborative_recommendations") /\ Returned) =>
    /\ Len(call.result.val) <= 3
    /\ \A i \in 1..Len(call.result.val) : call.result.val[i].user # call.args[1]

\* the target is in a population with more than 3 other users and 3 are returned
C1_Witness ==
  /\ IsCall("generate_collaborative_recommendations") /\ Returned
  /\ call.args[1] \in db.users
  /\ Cardinality(db.users \ {call.args[1]}) > 3
  /\ Len(call.result.val) = 3

\* ------------------------------------------------------------------------ C2
\* C2: for target user 1 and a population of 4 users in which users 2 and 3
\* share preference categories with user 1 and user 4 has no preferences, the
\* collaborative recommender returns user 2 and user 3 ranked above user 4.
\* The population is the one in which user 4 alone has an interaction, so
\* that the order of the rows is the one ORDER BY fixes.
C2_SharedCategoriesRankedAbove ==
  ( /\ IsCall("generate_collaborative_recommendations") /\ Returned
    /\ call.args[1] = 1
    /\ db.users = 1..4
    /\ db.user_preferences = SharedPreferences
    /\ db.user_interactions = <<0, 0, 0, 1>> ) =>
    LET res == call.result.val
        Pos(u) == { i \in 1..Len(res) : res[i].user = u }
    IN /\ Pos(2) # {}
       /\ Pos(3) # {}
       /\ \A k \in Pos(4) : \A i \in Pos(2) \cup Pos(3) : i < k

\* ------------------------------------------------------------------------ C3
\* the similarity the recommender computes between the target's row and u's
SimilarityToTarget(u) ==
  calculate_user_similarity(PopulationRow(db, call.args[1]), PopulationRow(db, u)).val

PopulationIndex(u) == CHOOSE i \in 1..Len(call.population) : call.population[i] = u

WellFormed(p) == ~Truthy(Get(p)) \/ ParsePreferences(p.s).exc = "none"
MapOf(p) == IF ~Truthy(Get(p)) THEN EmptyDict ELSE ParsePreferences(p.s).val

\* C4: calculate_user_similarity returns exactly 0.1 when either preference
\* map is empty (absent, empty, or without a category:score pair), or the maps
\* share no category, or either map's sum of squared scores is zero; in every
\* other case it returns dot/(norm1*norm2), dot over the shared categories and
\* each norm over the user's full map.
C4_FloorOrCosine ==
  ( /\ IsCall("calculate_user_similarity")
    /\ WellFormed(call.args[1].preferences)
    /\ WellFormed(call.args[2].preferences) ) =>
    LET m1 == MapOf(call.args[1].preferences)
        m2 == MapOf(call.args[2].preferences)
        shared == DOMAIN m1 \cap DOMAIN m2
        dot == SumOver(shared, [c \in shared |-> m1[c] * m2[c]])
        n1 == SumOver(DOMAIN m1, [c \in DOMAIN m1 |-> m1[c] * m1[c]])
        n2 == SumOver(DOMAIN m2, [c \in DOMAIN m2 |-> m2[c] * m2[c]])
    IN /\ Returned
       /\ IF DOMAIN m1 = {} \/ DOMAIN m2 = {} \/ shared = {} \/ n1 = 0 \/ n2 = 0
          THEN call.result.val = Sim(1, 100)
          ELSE SimEq(call.result.val, Sim(dot, n1 * n2))

\* two maps that share one category and differ in the other: a cosine that is
\* neither the floor nor 1
C4_Witness ==
  /\ IsCall("calculate_user_similarity") /\ Returned
  /\ WellFormed(call.args[1].preferences) /\ WellFormed(call.args[2].preferences)
  /\ Cardinality(DOMAIN MapOf(call.args[1].preferences)) = 2
  /\ Cardinality(DOMAIN MapOf(call.args[2].preferences)) = 1
  /\ call.result.val.num > 0
  /\ ~SimEq(call.result.val, Sim(1, 100))
  /\ ~SimEq(call.result.val, Sim(1, 1))

\* ------------------------------------------------------------------------ C9
SharedAndNonzero(p1, p2) ==
  /\ WellFormed(p1) /\ WellFormed(p2)
  /\ DOMAIN MapOf(p1) \cap DOMAIN MapOf(p2) # {}
  /\ \E c \in DOMAIN MapOf(p1) : MapOf(p1)[c] # 0
  /\ \E c \in DOMAIN MapOf(p2) : MapOf(p2)[c] # 0

\* C9: for all PreferenceMaps A and B with a shared category and nonzero
\* norms, calculate_user_similarity(A, B) equals calculate_user_similarity(B, A).
C9_Symmetric ==
  ( /\ IsCall("calculate_user_similarity")
    /\ SharedAndNonzero(call.args[1].preferences, call.args[2].preferences) ) =>
    LET swapped == calculate_user_similarity(call.args[2], call.args[1]) IN
    /\ Returned
    /\ swapped.exc = "none"
    /\ SimEq(call.result.val, swapped.val)

\* A and B share a category and have different norms
C9_Witness ==
  /\ IsCall("calculate_user_similarity") /\ Returned
  /\ SharedAndNonzero(call.args[1].preferences, call.args[2].preferences)
  /\ DOMAIN MapOf(call.args[1].preferences) # DOMAIN MapOf(call.args[2].preferences)
  /\ ~SimEq(call.result.val, Sim(1, 100))
  /\ ~SimEq(call.result.val, Sim(1, 1))

\* ------------------------------------------------------------------------ C5
\* the preference string the data store holds for user u (None: no user, or
\* no preferences recorded)
StoredPreferences(u) ==
  IF u \in db.users THEN GroupConcatPreferences(db, u) ELSE None

Scored(entry) == "recommendation_score" \in DOMAIN entry

CatalogIds == { content_items[i].id : i \in 1..Len(content_items) }
CatalogItem(id) == content_items[CHOOSE i \in 1..Len(content_items) : content_items[i].id = id]

\* base_score * preference(item.category), 0.1 when the category is not in m
ClaimedScore(m, id) ==
  CatalogItem(id).score *
    (IF CatalogItem(id).category \in DOMAIN m THEN m[CatalogItem(id).category] ELSE 1)

\* C5: with a user id given and a user that has at least one preference,
\* generate_content_recommendations scores every catalog item as base_score *
\* preference(item.category), 0.1 for a category not in the map, and returns the
\* 5 best of the 6 in descending order of recommendation_score; for the
\* preferences {technology: 1.0}, tech-001 is ranked above sports-001.
C5_PersonalizedTopFive ==
  ( /\ IsCall("generate_content_recommendations")
    /\ db.up
    /\ call.args[1].t = "int"
    /\ WellFormed(StoredPreferences(call.args[1].v))
    /\ DOMAIN MapOf(StoredPreferences(call.args[1].v)) # {} ) =>
    LET m == MapOf(StoredPreferences(call.args[1].v))
        res == call.result.val
        ids == { res[i].id : i \in 1..Len(res) }
        Pos(id) == CHOOSE i \in 1..Len(res) : res[i].id = id
    IN /\ Returned
       /\ Len(res) = 5 /\ Cardinality(ids) = 5 /\ ids \subseteq CatalogIds
       /\ \A i \in 1..Len(res) :
            Scored(res[i]) /\ res[i].recommendation_score = ClaimedScore(m, res[i].id)
       /\ \A i \in 1..Len(res), j \in 1..Len(res) :
            i < j => ClaimedScore(m, res[i].id) >= ClaimedScore(m, res[j].id)
       /\ \A id \in CatalogIds \ ids : \A r \in ids :
            ClaimedScore(m, r) >= ClaimedScore(m, id)
       /\ (DOMAIN m = {technology} /\ m[technology] = 10) =>
            /\ {"tech-001", "sports-001"} \subseteq ids
            /\ Pos("tech-001") < Pos("sports-001")

\* ------------------------------------------------------------------------ C6
\* C6: generate_content_recommendations is in default mode exactly when no
\* user id is given or the user's PreferenceMap is empty (no preferences, the
\* empty string, an unknown user); in default mode it returns min(3, catalog
\* size) distinct unscored catalog items; with an empty PreferenceMap it never
\* returns scored entries.
C6_DefaultModeExactly ==
  ( /\ IsCall("generate_content_recommendations")
    /\ db.up
    /\ Returned
    /\ call.args[1].t = "int" => WellFormed(StoredPreferences(call.args[1].v)) ) =>
    LET res == call.result.val
        given == call.args[1].t = "int"
        emptyMap == ~given \/ DOMAIN MapOf(StoredPreferences(call.args[1].v)) = {}
        default == \A i \in 1..Len(res) : ~Scored(res[i])
    IN /\ default <=> (~given \/ emptyMap)
       /\ default =>
            /\ Len(res) = Min(3, Len(content_items))
            /\ Cardinality({ res[i].id : i \in 1..Len(res) }) = Len(res)
            /\ \A i \in 1..Len(res) : \E k \in 1..Len(content_items) : res[i] = content_items[k]
       /\ emptyMap => default

\* ------------------------------------------------------------------------ C8
\* The Preference Parser rules, stated on the string: the pairs are the pieces
\* between commas, a pair without a colon is skipped, a pair with a colon is
\* category:score at its first colon, and a score that is no number is an error.
Pairs(s) == Split(s, ",")
HasColon(pair) == \E i \in 1..Len(pair) : pair[i] = ":"
FirstColon(pair) == CHOOSE i \in 1..Len(pair) : pair[i] = ":" /\ \A j \in 1..(i-1) : pair[j] # ":"
CategoryOf(pair) == SubSeq(pair, 1, FirstColon(pair) - 1)
ScoreOf(pair) == SubSeq(pair, FirstColon(pair) + 1, Len(pair))
Malformed(s) ==
  \E i \in 1..Len(Pairs(s)) : HasColon(Pairs(s)[i]) /\ ~FloatOk(ScoreOf(Pairs(s)[i]))
RuleMap(s) ==
  LET ps == Pairs(s)
      good == { i \in 1..Len(ps) : HasColon(ps[i]) }
      cats == { CategoryOf(ps[i]) : i \in good }
  IN [c \in cats |->
        FloatOf(ScoreOf(ps[CHOOSE i \in good :
                             /\ CategoryOf(ps[i]) = c
                             /\ \A j \in good : CategoryOf(ps[j]) = c => j <= i]))]

\* a preference value the core consumes holds a pair with a malformed score
HoldsMalformed(p) == Truthy(Get(p)) /\ Malformed(p.s)

\* C8 as claimed: a pair with a colon and a malformed score, in either
\* argument of calculate_user_similarity or in the string of the user of
\* generate_content_recommendations, makes the operation fail with the parse
\* error instead of returning a result.
C8_MalformedScoreAlwaysRaises ==
  /\ ( /\ IsCall("calculate_user_similarity")
       /\ \/ HoldsMalformed(call.args[1].preferences)
          \/ HoldsMalformed(call.args[2].preferences) ) =>
       call.result = Raise("ValueError")
  /\ ( /\ IsCall("generate_content_recommendations")
       /\ db.up /\ IdTruthy(call.args[1])
       /\ HoldsMalformed(StoredPreferences(call.args[1].v)) ) =>
       call.result = Raise("ValueError")

\* C8 as amended: calculate_user_similarity parses the two strings only when
\* both are present and non-empty, and generate_content_recommendations parses
\* the user's string when it is present and non-empty; a string that is parsed
\* is parsed by the Preference Parser rules (split on commas, each pair split
\* on its first colon, pairs without a colon skipped) and a malformed score in
\* it raises the parse error, which propagates.  When either argument of
\* calculate_user_similarity is absent or empty, 0.1 is returned and neither
\* string is parsed, so a malformed score in the other raises nothing.  An
\* absent or empty string is never an error.
C8_ParsedByRulesWhenConsumed ==
  /\ IsCall("calculate_user_similarity") =>
       LET p1 == call.args[1].preferences
           p2 == call.args[2].preferences
       IN IF Truthy(Get(p1)) /\ Truthy(Get(p2))
          THEN IF Malformed(p1.s) \/ Malformed(p2.s)
               THEN call.result = Raise("ValueError")
               ELSE call.result = Return(Cosine(RuleMap(p1.s), RuleMap(p2.s)))
          ELSE call.result = Return(Sim(1, 100))
  /\ ( /\ IsCall("generate_content_recommendations")
       /\ db.up /\ IdTruthy(call.args[1]) ) =>
       LET p == StoredPreferences(call.args[1].v) IN
       IF Truthy(p)
       THEN IF Malformed(p.s)
            THEN call.result = Raise("ValueError")
            ELSE call.result = Return(TopFive(SortByScore(ScoredContent(RuleMap(p.s)))))
       ELSE Returned /\ \A i \in 1..Len(call.result.val) : ~Scored(call.result.val[i])

\* a pair with two colons made the similarity raise, and the first argument
\* held a pair without a colon
C8_Witness ==
  /\ IsCall("calculate_user_similarity")
  /\ call.result = Raise("ValueError")
  /\ Truthy(Get(call.args[1].preferences))
  /\ ~Malformed(call.args[1].preferences.s)
  /\ \E i \in 1..Len(Pairs(call.args[1].preferences.s)) :
       ~HasColon(Pairs(call.args[1].preferences.s)[i])
  /\ \E i \in 1..Len(Pairs(call.args[2].preferences.s)) :
       /\ HasColon(Pairs(call.args[2].preferences.s)[i])
       /\ HasColon(ScoreOf(Pairs(call.args[2].preferences.s)[i]))

\* ------------------------------------------------------------------------ C7
\* the request is a GET on a recommendations path
IsRecommendationsRequest(input) ==
  /\ input.kind = "object"
  /\ input.method \in {Absent, Str("GET")}
  /\ input.path.t = "str"
  /\ Contains(input.path.s, slash_recommendations)

\* the user id the path of a recommendations request names (None: none)
RequestedUser(input) == ExtractUserId(input.path.s)

\* C7: if a failure is raised while main processes a request (malformed JSON
\* input, a data-store error, a malformed preference score), main emits exactly
\* one response envelope, of status 500 with a message field in its body, emits
\* no 200 or 404 envelope, and the failure does not escape main.
C7_FailureGivesOne500 ==
  IsCall("main") =>
    LET input == call.args[1]
        out == call.result.stdout
        failed == /\ Len(out) = 1
                  /\ out[1].status = 500
                  /\ "message" \in DOMAIN out[1].body
                  /\ ~call.result.escaped
    IN /\ call.result.raised # "none" => failed
       /\ input.kind = "malformed" => call.result.raised # "none"
       /\ ( /\ IsRecommendationsRequest(input)
            /\ IdTruthy(RequestedUser(input))
            /\ ~db.up ) => call.result.raised # "none"
       /\ ( /\ IsRecommendationsRequest(input)
            /\ IdTruthy(RequestedUser(input))
            /\ db.up
            /\ HoldsMalformed(StoredPreferences(RequestedUser(input).v)) )
            => call.result.raised # "none"
       /\ call.result.raised = "none" => (Len(out) = 1 /\ out[1].status \in {200, 404})

\* a malformed preference score of the requested user raised in the content
\* recommender, after the collaborative block was computed
C7_Witness ==
  /\ IsCall("main")
  /\ IsRecommendationsRequest(call.args[1])
  /\ db.up
  /\ call.result.raised = "ValueError"
  /\ call.result.stdout = <<ErrorResponse("ValueError")>>

\* ----------------------------------------------------------------------- C10
\* C10: a GET request on a recommendations path whose target user cannot be
\* located (no user id in the path, a user id of 0, or an id absent from the
\* population) is not an error: as long as the data store answers the queries
\* made, the response has status 200, its collaborative block is the empty
\* sequence, and its content and trending blocks are produced.
C10_UnlocatedTargetIs200 ==
  ( /\ IsCall("main")
    /\ IsRecommendationsRequest(call.args[1])
    /\ \/ RequestedUser(call.args[1]) = None
       \/ RequestedUser(call.args[1]).v = 0
       \/ RequestedUser(call.args[1]).v \notin db.users
    /\ db.up \/ ~IdTruthy(RequestedUser(call.args[1])) ) =>
    LET out == call.result.stdout IN
    /\ ~call.result.escaped
    /\ Len(out) = 1
    /\ out[1].status = 200
    /\ out[1].body.recommendations.collaborative = <<>>
    /\ Len(out[1].body.recommendations.content) = 3
    /\ \A i \in 1..3 : out[1].body.recommendations.content[i].id \in CatalogIds
    /\ out[1].body.recommendations.trending = generate_trending_recommendations

\* the path names user 2, who is not in the data store
C10_Witness ==
  /\ IsCall("main")
  /\ IsRecommendationsRequest(call.args[1])
  /\ RequestedUser(call.args[1]) = PyInt(2)
  /\ 2 \notin db.users
  /\ db.up
  /\ Len(call.result.stdout) = 1
  /\ call.result.stdout[1].status = 200

====
